---- MODULE Spec2Model ----
(***************************************************************************)
(* Model of the gallery controller of src/pages/Index.tsx: the React       *)
(* component state (images, isUploading, selectedFile), its four handlers  *)
(* (fetchImages, handleFileSelect, handleUpload, handleDelete), the        *)
(* requests they keep in flight and the backend that answers them.         *)
(***************************************************************************)
EXTENDS Integers, Sequences, FiniteSets, Bags, TLC

VARIABLES
    images,        \* useState<UploadedImage[]>: the in-memory collection
    isUploading,   \* useState(false): the uploading flag
    selectedFile,  \* useState<File | null>: the staged candidate
    mounted,       \* TRUE once the mount effect has run fetchImages
    net,           \* bag of the awaited fetch calls: requests and responses
    server,        \* the records the backend stores, in list order
    nextId,        \* the id the backend gives to the next upload
    notice,        \* the toast raised by the last step (NoNotice if none)
    last           \* the step taken last: <<handler or party, input or branch>>

vars == <<images, isUploading, selectedFile, mounted, net,
          server, nextId, notice, last>>

----------------------------------------------------------------------------
(* Bounds *)

MaxInFlight == 2   \* fetch calls awaited at the same time
MaxRecords == 2    \* highest id the backend gives out (id 1 is stored at start)

----------------------------------------------------------------------------
(* Files and the validation of handleFileSelect *)

ImagePrefix == <<"i", "m", "a", "g", "e", "/">>
Png == ImagePrefix \o <<"p", "n", "g">>
BareImage == <<"i", "m", "a", "g", "e">>
TextPlain == <<"t", "e", "x", "t", "/", "p", "l", "a", "i", "n">>

MaxFileSize == 5 * 1024 * 1024

NoFile == [name |-> "", type |-> <<>>, size |-> 0]

\* the files the user may pick in the file dialog
Candidates ==
    { [name |-> "small.png", type |-> Png, size |-> 1024],
      [name |-> "limit.png", type |-> Png, size |-> MaxFileSize],
      [name |-> "over.png", type |-> Png, size |-> MaxFileSize + 1],
      [name |-> "notes.txt", type |-> TextPlain, size |-> 1024],
      [name |-> "image", type |-> BareImage, size |-> 1024] }

\* String.prototype.startsWith on media types spelled as character tuples
StartsWithLoose(s, p) ==
    \E n \in 1..Len(p) : Len(s) >= n /\ SubSeq(s, 1, n) = SubSeq(p, 1, n)

StartsWith(s, p) ==
    Len(s) >= Len(p) /\ SubSeq(s, 1, Len(p)) = p

IsImageType(file) == StartsWith(file.type, ImagePrefix)

TooLargeOffByOne(file) == file.size >= MaxFileSize

TooLarge(file) == file.size > MaxFileSize

----------------------------------------------------------------------------
(* Notices (sonner toasts) *)

NoNotice == [level |-> "none", text |-> ""]
Error(t) == [level |-> "error", text |-> t]
Success(t) == [level |-> "success", text |-> t]

----------------------------------------------------------------------------
(* Records *)

\* the status field of a record as the backend sends it: absent ("none")
\* on odd ids, "analyzing" on even ids
BackendStatus(id) == IF id % 2 = 1 THEN "none" ELSE "analyzing"

BackendRecord(id) == [id |-> id, status |-> BackendStatus(id)]

NoRecs == <<>>

\* { ...img, status: "completed" }
TagKeep(img) == img

Tag(img) == [img EXCEPT !.status = "completed"]

\* data.map(img => ({ ...img, status: "completed" }))
TagAll(data) == [i \in 1..Len(data) |-> Tag(data[i])]

\* prev.filter(img => img.id !== id)
FilterInverted(prev, id) ==
    LET keep(img) == img.id = id IN SelectSeq(prev, keep)

Filter(prev, id) ==
    LET keep(img) == img.id # id IN SelectSeq(prev, keep)

\* [{ ...result, status: "completed" }, ...prev]
PrependUntagged(result, prev) == <<result>> \o prev

Prepend(result, prev) == <<Tag(result)>> \o prev

Ids(s) == {s[i].id : i \in 1..Len(s)}

----------------------------------------------------------------------------
(* Messages: one per awaited fetch. phase "req" until the backend has      *)
(* answered, then "resp". outcome: "ok" (response.ok), "notok", "throw"    *)
(* (the awaited fetch rejects). body: what response.json() finds: "json"   *)
(* (the records in recs), "msg" and "nomsg" (an error object with and      *)
(* without a message), "notjson" (nothing parseable), "none" (not read).   *)

Msg(kind, file, id) ==
    [kind |-> kind, phase |-> "req", outcome |-> "none",
     body |-> "none", file |-> file, id |-> id, recs |-> NoRecs]

NoMsg == Msg("none", NoFile, 0)

Respond(m, outcome, body, recs) ==
    [m EXCEPT !.phase = "resp", !.outcome = outcome, !.body = body,
              !.recs = recs]

----------------------------------------------------------------------------
Init ==
    /\ images = <<>>
    /\ isUploading = FALSE
    /\ selectedFile = NoFile
    /\ mounted = FALSE
    /\ net = EmptyBag
    /\ server = <<BackendRecord(1)>>
    /\ nextId = Len(server) + 1
    /\ notice = NoNotice
    /\ last = <<"init", "">>

----------------------------------------------------------------------------
(* Handlers: the part that runs before the await *)

\* useEffect(() => { fetchImages(); }, []) up to the await of fetch
FetchImages ==
    /\ ~mounted
    /\ BagCardinality(net) < MaxInFlight
    /\ mounted' = TRUE
    /\ LET m == Msg("list", NoFile, 0) IN
          net' = net (+) SetToBag({m})
    /\ last' = <<"fetchImages", "">>
    /\ notice' = NoNotice
    /\ UNCHANGED <<images, isUploading, selectedFile, server, nextId>>

\* handleFileSelect with event.target.files?.[0] = file. With no file the
\* handler returns at once and nothing changes: a stuttering step.
\* The handlers of the page run once the mount effect has run.
HandleFileSelect(file) ==
    /\ mounted
    /\ last' = <<"handleFileSelect", file.name>>
    /\ IF ~IsImageType(file)
       THEN /\ notice' = Error("Please select a valid image file (JPEG/PNG)")
            /\ UNCHANGED selectedFile
       ELSE IF TooLarge(file)
       THEN /\ notice' = Error("File size must be less than 5MB")
            /\ UNCHANGED selectedFile
       ELSE /\ selectedFile' = file
            /\ notice' = Success("Image selected! Click upload to analyze.")
    /\ UNCHANGED <<images, isUploading, mounted, net, server, nextId>>

\* the submit button is rendered only while a file is staged and is
\* disabled while the uploading flag is set
UploadButtonShown == selectedFile # NoFile
UploadButtonNeverDisabled == TRUE

UploadButtonEnabled == ~isUploading

\* the test `!selectedFile` of handleUpload, negated
HasStagedAlways(file) == TRUE

HasStaged(file) == file # NoFile

\* handleUpload up to the await of fetch
HandleUpload ==
    /\ IF ~HasStaged(selectedFile)
       THEN /\ notice' = Error("Please select an image first")
            /\ last' = <<"handleUpload", "nofile">>
            /\ UNCHANGED <<isUploading, net>>
       ELSE /\ BagCardinality(net) < MaxInFlight
            /\ isUploading' = TRUE
            /\ LET m == Msg("upload", selectedFile, 0) IN
                  net' = net (+) SetToBag({m})
            /\ last' = <<"handleUpload", "sent">>
            /\ notice' = NoNotice
    /\ UNCHANGED <<images, selectedFile, mounted, server, nextId>>

ClickUpload ==
    /\ UploadButtonShown
    /\ UploadButtonEnabled
    /\ HandleUpload

\* handleDelete(id) up to the await of fetch
HandleDelete(id) ==
    /\ BagCardinality(net) < MaxInFlight
    /\ LET m == Msg("delete", NoFile, id) IN
          /\ net' = net (+) SetToBag({m})
          /\ last' = <<"handleDelete", "">>
    /\ notice' = NoNotice
    /\ UNCHANGED <<images, isUploading, selectedFile, mounted, server, nextId>>

\* the Delete button of a rendered card
ClickDelete == \E id \in Ids(images) : HandleDelete(id)

----------------------------------------------------------------------------
(* The backend and the network *)

Replace(m, r) == (net (-) SetToBag({m})) (+) SetToBag({r})

\* GET /api/images
ServerList(m) ==
    /\ m.kind = "list" /\ m.phase = "req"
    /\ \E r \in { Respond(m, "ok", "json", server),
                   Respond(m, "notok", "none", NoRecs) } :
          /\ net' = Replace(m, r)
          /\ last' = <<"server", "">>
    /\ notice' = NoNotice
    /\ UNCHANGED <<images, isUploading, selectedFile, mounted,
                   server, nextId>>

\* POST /api/upload: stores a record under a fresh id, or refuses
ServerUpload(m) ==
    /\ m.kind = "upload" /\ m.phase = "req"
    /\ \/ /\ nextId <= MaxRecords
          /\ LET rec == BackendRecord(nextId)
                 r == Respond(m, "ok", "json", <<rec>>)
             IN /\ server' = Append(server, rec)
                /\ net' = Replace(m, r)
                /\ last' = <<"server", "">>
          /\ nextId' = nextId + 1
       \/ /\ \E b \in {"msg", "nomsg", "notjson"} :
                LET r == Respond(m, "notok", b, NoRecs)
                IN /\ net' = Replace(m, r)
                   /\ last' = <<"server", "">>
          /\ UNCHANGED <<server, nextId>>
    /\ notice' = NoNotice
    /\ UNCHANGED <<images, isUploading, selectedFile, mounted>>

\* DELETE /api/image/{id}
ServerDelete(m) ==
    /\ m.kind = "delete" /\ m.phase = "req"
    /\ \/ /\ m.id \in Ids(server)
          /\ server' = Filter(server, m.id)
          /\ LET r == Respond(m, "ok", "none", NoRecs)
             IN /\ net' = Replace(m, r)
                /\ last' = <<"server", "">>
       \/ /\ UNCHANGED server
          /\ LET r == Respond(m, "notok", "none", NoRecs)
             IN /\ net' = Replace(m, r)
                /\ last' = <<"server", "">>
    /\ notice' = NoNotice
    /\ UNCHANGED <<images, isUploading, selectedFile, mounted,
                   nextId>>

\* the connection fails before the backend has the request: the awaited
\* fetch rejects
NetworkFail(m) ==
    /\ m.phase = "req"
    /\ LET r == Respond(m, "throw", "none", NoRecs)
       IN /\ net' = Replace(m, r)
          /\ last' = <<"netfail", "">>
    /\ notice' = NoNotice
    /\ UNCHANGED <<images, isUploading, selectedFile, mounted,
                   server, nextId>>

----------------------------------------------------------------------------
(* Handlers: the part that runs when the awaited fetch settles *)

\* the message of the SyntaxError that `await response.json()` throws on a
\* body that is not JSON (an empty body included)
JsonError == "Unexpected end of JSON input"

BackendMessage == "Analysis failed"

\* the message of the Error that reaches the catch block of handleUpload
UploadErrorMessage(m) ==
    IF m.outcome = "throw" THEN "Failed to fetch"
    ELSE IF m.body = "notjson" THEN JsonError
    ELSE IF m.body = "msg" THEN BackendMessage
    ELSE "Upload failed"

\* response.ok held and response.json() gave the body
ListSucceeded(m) == m.outcome = "ok" /\ m.body = "json"

UploadSucceeded(m) == m.outcome = "ok" /\ m.body = "json"

\* handleDelete tests response.ok and never reads the body
DeleteSucceededLoose(m) == m.outcome # "throw"

DeleteSucceeded(m) == m.outcome = "ok"

\* setSelectedFile(null) sits in the success branch only
StagedAfterUploadAlways(m, staged) == NoFile

StagedAfterUpload(m, staged) == IF UploadSucceeded(m) THEN NoFile ELSE staged

\* setIsUploading(false) sits in the finally block: it runs after the
\* success branch, after the else branch and after the catch block
UploadingAfterSuccessOnly(m) == ~UploadSucceeded(m)

UploadingAfter(m) == FALSE

\* the branch a settled fetch takes: "ok", "notok" (response.ok false) or
\* "throw" (the catch block: fetch or response.json() rejected)
Branch(m) ==
    IF m.outcome = "ok" /\ m.body = "json" THEN "ok"
    ELSE IF m.outcome = "notok" THEN "notok"
    ELSE "throw"

\* fetchImages after the await
FetchImagesDone(m) ==
    /\ m.kind = "list" /\ m.phase = "resp"
    /\ net' = net (-) SetToBag({m})
    /\ last' = <<"fetchImagesDone", Branch(m)>>
    /\ IF ListSucceeded(m)
       THEN /\ images' = TagAll(m.recs)
            /\ notice' = NoNotice
       ELSE IF m.outcome = "notok"
       THEN /\ notice' = NoNotice
            /\ UNCHANGED images
       ELSE /\ notice' = Error("Failed to load images")
            /\ UNCHANGED images
    /\ UNCHANGED <<isUploading, selectedFile, mounted, server, nextId>>

\* handleUpload after the await, the finally block included
HandleUploadDone(m) ==
    /\ m.kind = "upload" /\ m.phase = "resp"
    /\ net' = net (-) SetToBag({m})
    /\ last' = <<"handleUploadDone", Branch(m)>>
    /\ IF UploadSucceeded(m)
       THEN /\ images' = Prepend(m.recs[1], images)
            /\ notice' = Success("Image uploaded and analyzed successfully!")
       ELSE /\ notice' = Error("Upload failed: " \o UploadErrorMessage(m))
            /\ UNCHANGED images
    /\ selectedFile' = StagedAfterUpload(m, selectedFile)
    /\ isUploading' = UploadingAfter(m)
    /\ UNCHANGED <<mounted, server, nextId>>

\* handleDelete after the await
HandleDeleteDone(m) ==
    /\ m.kind = "delete" /\ m.phase = "resp"
    /\ net' = net (-) SetToBag({m})
    /\ last' = <<"handleDeleteDone", m.outcome>>
    /\ IF DeleteSucceeded(m)
       THEN /\ images' = Filter(images, m.id)
            /\ notice' = Success("Image deleted successfully")
       ELSE IF m.outcome = "notok"
       THEN /\ notice' = Error("Failed to delete image")
            /\ UNCHANGED images
       ELSE /\ notice' = Error("An error occurred while deleting the image")
            /\ UNCHANGED images
    /\ UNCHANGED <<isUploading, selectedFile, mounted, server, nextId>>

----------------------------------------------------------------------------
Next ==
    \/ FetchImages
    \/ \E file \in Candidates : HandleFileSelect(file)
    \/ ClickUpload
    \/ ClickDelete
    \/ \E m \in BagToSet(net) : ServerList(m)
    \/ \E m \in BagToSet(net) : ServerUpload(m)
    \/ \E m \in BagToSet(net) : ServerDelete(m)
    \/ \E m \in BagToSet(net) : NetworkFail(m)
    \/ \E m \in BagToSet(net) : FetchImagesDone(m)
    \/ \E m \in BagToSet(net) : HandleUploadDone(m)
    \/ \E m \in BagToSet(net) : HandleDeleteDone(m)

Spec == Init /\ [][Next]_vars

\* uploadStaged as an operation of the controller: handleUpload called
\* whether or not the submit button is rendered, while no upload is under
\* way (calls made during an upload are left out)
CallUploadStaged ==
    /\ mounted
    /\ ~isUploading
    /\ HandleUpload

NextDirect ==
    \/ Next
    \/ CallUploadStaged

SpecDirect == Init /\ [][NextDirect]_vars

\* every upload request is answered (by the backend, unless the connection
\* fails first) and the handler awaiting it is resumed
FairSpec ==
    /\ Spec
    /\ WF_vars(\E m \in BagToSet(net) : ServerUpload(m))
    /\ WF_vars(\E m \in BagToSet(net) : HandleUploadDone(m))

----------------------------------------------------------------------------
(* Vocabulary of the properties, independent of the handlers above *)

\* the step applies the settled fetch m: m leaves the bag, nothing enters
Applied(m) == net' = net (-) SetToBag({m})

Settled(kind) == {m \in BagToSet(net) : m.kind = kind /\ m.phase = "resp"}

Positions(s, id) == {i \in 1..Len(s) : s[i].id = id}

Range(s) == {s[i] : i \in 1..Len(s)}

RECURSIVE Without(_, _)
Without(s, id) ==
    IF s = <<>> THEN <<>>
    ELSE IF Head(s).id = id THEN Without(Tail(s), id)
    ELSE <<Head(s)>> \o Without(Tail(s), id)

RECURSIVE WithoutAll(_, _)
WithoutAll(s, ids) ==
    IF s = <<>> THEN <<>>
    ELSE IF Head(s).id \in ids THEN WithoutAll(Tail(s), ids)
    ELSE <<Head(s)>> \o WithoutAll(Tail(s), ids)

\* the number of upload requests awaited, answered or not
UploadsInFlight ==
    LET ups == {m \in BagToSet(net) : m.kind = "upload"}
        RECURSIVE Sum(_)
        Sum(S) == IF S = {} THEN 0
                  ELSE LET m == CHOOSE x \in S : TRUE
                       IN CopiesIn(m, net) + Sum(S \ {m})
    IN Sum(ups)

NotImage(f) ==
    \E i \in 1..6 : Len(f.type) < i \/ f.type[i] # <<"i", "m", "a", "g", "e", "/">>[i]

----------------------------------------------------------------------------
(* C1: when an upload succeeds with record r, the collection right after   *)
(* the response is applied has r as its first element, tagged "completed", *)
(* and exactly one element with r's id.                                    *)
C1_UploadedOnceFirst ==
    [][\A m \in Settled("upload") :
          (m.outcome = "ok" /\ m.body = "json" /\ Applied(m)) =>
             /\ images' # <<>>
             /\ images'[1] = [id |-> m.recs[1].id, status |-> "completed"]
             /\ Cardinality(Positions(images', m.recs[1].id)) = 1]_vars

(* C2: no two elements of the collection have the same id. *)
C2_UniqueIds ==
    \A i, j \in 1..Len(images) : images[i].id = images[j].id => i = j

(* C3: a record leaves the collection only in a step that applies the      *)
(* success response of a delete request for that record's id.              *)
C3_RemovedOnlyByDelete ==
    [][\A x \in Range(images) :
          x \notin Range(images') =>
             \E m \in Settled("delete") :
                m.outcome = "ok" /\ m.id = x.id /\ Applied(m)]_vars

(* C4: a listImages request that throws or gets a non-success response     *)
(* leaves collection and staged file unchanged and raises a failure notice.*)
C4_ListFailureNoticed ==
    [][\A m \in Settled("list") :
          (m.outcome \in {"throw", "notok"} /\ Applied(m)) =>
             /\ images' = images
             /\ selectedFile' = selectedFile
             /\ notice'.level = "error"]_vars

(* C5: a listImages success carrying L makes the collection exactly L, in  *)
(* order, every record tagged "completed"; staged file and uploading flag  *)
(* are unchanged.                                                          *)
C5_ListReplaces ==
    [][\A m \in Settled("list") :
          (m.outcome = "ok" /\ m.body = "json" /\ Applied(m)) =>
             /\ Len(images') = Len(m.recs)
             /\ \A i \in 1..Len(m.recs) :
                   images'[i] = [id |-> m.recs[i].id, status |-> "completed"]
             /\ selectedFile' = selectedFile
             /\ isUploading' = isUploading]_vars

\* an upload was stored as record 2 and its response applied; the list
\* response taken before it has just replaced that collection by record 1
C5_Witness ==
    /\ last = <<"fetchImagesDone", "ok">>
    /\ images = <<[id |-> 1, status |-> "completed"]>>
    /\ Ids(server) = {1, 2}
    /\ net = EmptyBag
    /\ ~isUploading

(* C6: an upload that fails (non-success response or thrown request)       *)
(* leaves the collection unchanged and the staged candidate still set.     *)
C6_UploadFailureKeeps ==
    [][\A m \in Settled("upload") :
          (m.outcome \in {"throw", "notok"} /\ Applied(m)) =>
             /\ images' = images
             /\ selectedFile' # NoFile
             /\ selectedFile' = selectedFile]_vars

C6_Witness ==
    /\ last[1] = "handleUploadDone"
    /\ last[2] \in {"notok", "throw"}
    /\ selectedFile # NoFile
    /\ images # <<>>
    /\ ~isUploading

(* C7: a successful deleteImage(id) leaves exactly the prior collection    *)
(* without the records of that id, the others unmodified and in order.     *)
C7_DeleteRemovesExactly ==
    [][\A m \in Settled("delete") :
          (m.outcome = "ok" /\ Applied(m)) =>
             images' = Without(images, m.id)]_vars

\* a delete has just removed one record and kept another
C7_Witness ==
    /\ last = <<"handleDeleteDone", "ok">>
    /\ images # <<>>
    /\ Len(server) = 1
    /\ nextId > 2
    /\ Ids(images) = Ids(server)

(* C8: a deleteImage that fails (non-success response or thrown request)   *)
(* leaves the collection as it was and raises a failure notice.            *)
C8_DeleteFailureKeeps ==
    [][\A m \in Settled("delete") :
          (m.outcome \in {"throw", "notok"} /\ Applied(m)) =>
             /\ images' = images
             /\ notice'.level = "error"]_vars

C8_Witness ==
    /\ last[1] = "handleDeleteDone"
    /\ last[2] \in {"notok", "throw"}
    /\ notice.level = "error"
    /\ images # <<>>

(* C9: selectFile rejects a file whose media type does not start with      *)
(* "image/" and a file larger than 5 MiB: staged candidate and collection  *)
(* stay as they were, no request is issued, an error notice is raised.     *)
C9_SelectRejects ==
    [][last'[1] = "handleFileSelect" =>
          \A f \in Candidates :
             (f.name = last'[2] /\ (NotImage(f) \/ f.size > 5242880)) =>
                /\ selectedFile' = selectedFile
                /\ images' = images
                /\ net' = net
                /\ notice'.level = "error"]_vars

\* a file has just been rejected while another one stays staged
C9_Witness ==
    /\ last[1] = "handleFileSelect"
    /\ last[2] \in {"over.png", "notes.txt", "image"}
    /\ notice.level = "error"
    /\ selectedFile # NoFile

(* C10: selectFile stages exactly the given file when its media type       *)
(* starts with "image/" and its size is at most 5*1024*1024 bytes (that    *)
(* size included, one byte more rejected), and changes nothing else.       *)
C10_SelectAccepts ==
    [][last'[1] = "handleFileSelect" =>
          \A f \in Candidates :
             (f.name = last'[2] /\ ~NotImage(f)) =>
                /\ f.size <= 5242880 =>
                      /\ selectedFile' = f
                      /\ images' = images
                      /\ isUploading' = isUploading
                      /\ net' = net
                /\ f.size >= 5242881 => selectedFile' = selectedFile]_vars

\* the file of exactly 5 MiB has just replaced the staged small.png or
\* been staged anew, during an upload
C10_Witness ==
    /\ last = <<"handleFileSelect", "limit.png">>
    /\ selectedFile.size = 5242880
    /\ images # <<>>
    /\ isUploading

(* C11: uploadStaged called while no file is staged issues no request,     *)
(* raises an error notice and leaves the collection, the (empty) staged    *)
(* candidate and the (false) uploading flag as they were.                  *)
C11_NoStagedNoRequest ==
    [][(selectedFile = NoFile /\ last'[1] = "handleUpload") =>
          /\ net' = net
          /\ notice'.level = "error"
          /\ images' = images
          /\ selectedFile' = NoFile
          /\ isUploading = FALSE
          /\ isUploading' = FALSE]_vars

\* uploadStaged has just been called with nothing staged, after an earlier
\* upload had emptied the staged candidate
C11_Witness ==
    /\ last = <<"handleUpload", "nofile">>
    /\ selectedFile = NoFile
    /\ notice = Error("Please select an image first")
    /\ Len(images) = 2

C13_AllCompleted ==
    \A i \in 1..Len(images) : images[i].status = "completed"

\* the collection holds record 1, sent with no status, and record 2, sent
\* as "analyzing"
C13_Witness ==
    /\ Ids(images) = {1, 2}
    /\ \E i \in 1..Len(server) : server[i].status = "analyzing"
    /\ \E i \in 1..Len(server) : server[i].status = "none"

(* C14: on a non-success upload response the notice carries the message    *)
(* field of the body when the body has one, and the generic message        *)
(* "Upload failed" otherwise: a JSON body without message, an empty body,  *)
(* a body that is not JSON.                                                *)
C14_UploadFailureMessage ==
    [][\A m \in Settled("upload") :
          (m.outcome = "notok" /\ Applied(m)) =>
             /\ notice'.level = "error"
             /\ notice'.text = "Upload failed: " \o
                   (IF m.body = "msg" THEN "Analysis failed" ELSE "Upload failed")]_vars

(* C15: with uploads submitted through the submit button, which is         *)
(* disabled while the uploading flag is set, at most one upload request is *)
(* in flight, and the flag is set exactly while one is in flight.          *)
C15_OneUploadFlagged ==
    /\ UploadsInFlight <= 1
    /\ isUploading <=> UploadsInFlight = 1

\* an upload is in flight, answered by the backend and not yet applied,
\* while another file has been staged and the button is disabled
C15_Witness ==
    /\ isUploading
    /\ \E m \in Settled("upload") : m.file # selectedFile
    /\ selectedFile # NoFile

(* C16: every upload request that settles, by a success response, a        *)
(* non-success response, an unparseable body or a thrown request, leaves   *)
(* the uploading flag false; when every request settles, the flag is false *)
(* again and again, so a set flag always leads to a cleared flag.          *)
C16_FlagCleared ==
    /\ [][\A m \in Settled("upload") : Applied(m) => ~isUploading']_vars
    /\ []<>~isUploading

\* a failed upload has just been applied and the flag is down
C16_Witness ==
    /\ last[1] = "handleUploadDone"
    /\ last[2] \in {"notok", "throw"}
    /\ notice.text \in {"Upload failed: Unexpected end of JSON input",
                         "Upload failed: Failed to fetch"}
    /\ ~isUploading

(* C17: a success response to an upload of file f empties the staged       *)
(* candidate only when the candidate staged at that moment is f, so a file *)
(* accepted while another file's upload is in flight is never discarded    *)
(* unsubmitted.                                                            *)
C17_ClearedOnlyOwnFile ==
    [][\A m \in Settled("upload") :
          ( /\ Applied(m)
            /\ m.outcome = "ok"
            /\ m.body = "json"
            /\ selectedFile # NoFile
            /\ selectedFile' = NoFile )
          => selectedFile = m.file]_vars

====
